---------------------------- MODULE Spec2Model ----------------------------
(***************************************************************************)
(* Model of the 7-colour e-ink quantiser of color_mapping.py               *)
(* (class SevenColorMapper): palette, LAB conversion, perceptual           *)
(* distance, the precomputed lookup table, direct quantisation,            *)
(* error-diffusion dithering with serpentine scanning, the blue-noise      *)
(* mode and the optional accelerated backend.                              *)
(*                                                                         *)
(* Arithmetic.  The program computes LAB values in float64 and the         *)
(* dithering buffer in float32.  Here they are fixed-point integers:       *)
(*   - linear-light channel values           scale 10^5                    *)
(*   - XYZ relative to the white point       scale 10^6                    *)
(*   - f(t) of the LAB conversion            scale 10^4                    *)
(*   - L, a, b                               scale 10^2                    *)
(*   - working buffer (float32 img_array)    scale 2^16 (FixedOne)         *)
(* Distances are compared by their squares (sqrt is monotone).             *)
(***************************************************************************)
EXTENDS Integers, Sequences, FiniteSets, TLC

(***************************************************************************)
(* Bounds of the model.                                                    *)
(***************************************************************************)
MaxW == 2
MaxH == 4

(***************************************************************************)
(* Palette (class constants).                                              *)
(***************************************************************************)
\* EINK_COLORS in declaration order (a dict keeps insertion order).
EINK_COLORS ==
    << [name |-> "BLACK",  rgb |-> <<0, 0, 0>>],
       [name |-> "WHITE",  rgb |-> <<255, 255, 255>>],
       [name |-> "GREEN",  rgb |-> <<0, 255, 0>>],
       [name |-> "BLUE",   rgb |-> <<0, 0, 255>>],
       [name |-> "RED",    rgb |-> <<255, 0, 0>>],
       [name |-> "YELLOW", rgb |-> <<255, 255, 0>>],
       [name |-> "ORANGE", rgb |-> <<255, 165, 0>>] >>

COLOR_INDICES ==
    [n \in {"BLACK", "WHITE", "GREEN", "BLUE", "RED", "YELLOW", "ORANGE"} |->
        CASE n = "BLACK"  -> 0
          [] n = "WHITE"  -> 1
          [] n = "GREEN"  -> 2
          [] n = "BLUE"   -> 3
          [] n = "RED"    -> 4
          [] n = "YELLOW" -> 5
          [] n = "ORANGE" -> 6]

PaletteRGB == {EINK_COLORS[i].rgb : i \in 1..Len(EINK_COLORS)}

\* Position of a name in Python's string order, the tie-break of list.sort()
\* on (distance, name, rgb) tuples.
NameRank(n) ==
    CASE n = "BLACK"  -> 1
      [] n = "BLUE"   -> 2
      [] n = "GREEN"  -> 3
      [] n = "ORANGE" -> 4
      [] n = "RED"    -> 5
      [] n = "WHITE"  -> 6
      [] n = "YELLOW" -> 7

(***************************************************************************)
(* Integer helpers.                                                        *)
(***************************************************************************)
Max(a, b) == IF a >= b THEN a ELSE b
Min(a, b) == IF a <= b THEN a ELSE b

\* a / b rounded to the nearest integer (b > 0), as a float operation rounds.
RoundDiv(a, b) == (2 * a + b) \div (2 * b)

\* Newton's iteration for floor(sqrt(n)) from a start value above the root.
RECURSIVE SqrtNewton(_, _)
SqrtNewton(n, xk) ==
    LET nx == (xk + n \div xk) \div 2
    IN  IF nx >= xk THEN xk ELSE SqrtNewton(n, nx)

\* floor(sqrt(n)) for 0 <= n < 2^31
ISqrt(n) ==
    IF n < 2 THEN n
    ELSE SqrtNewton(n, IF n < 65536 THEN 256
                       ELSE IF n < 16777216 THEN 4096
                       ELSE IF n < 268435456 THEN 16384
                       ELSE 46341)

\* floor(T * 10^6 / m) for 0 <= T <= 2 * 10^6 and m >= 1000, in 32-bit steps.
ScaledQuot(T, m) ==
    LET q == (T * 1000) \div m
        r == (T * 1000) % m
    IN  q * 1000 + (r * 1000) \div m

\* Newton's iteration for floor((T * 10^6) ** (1/3)) from a start value above
\* the root.
RECURSIVE CbrtNewton(_, _)
CbrtNewton(T, xk) ==
    LET nx == (2 * xk + ScaledQuot(T, xk) \div xk) \div 3
    IN  IF nx >= xk THEN xk ELSE CbrtNewton(T, nx)

(***************************************************************************)
(* _rgb_to_lab: sRGB -> XYZ -> LAB.                                        *)
(***************************************************************************)
\* gamma_correct(c / 255.0) * 10^5, rounded, for c = 0..255 (entry c + 1):
\* ((v + 0.055) / 1.055) ** 2.4 above 0.04045, v / 12.92 below.
GammaTable ==
 << 0, 30, 61, 91, 121, 152, 182, 212,
    243, 273, 304, 335, 368, 402, 439, 478,
    518, 561, 605, 651, 700, 750, 802, 857,
    913, 972, 1033, 1096, 1161, 1229, 1298, 1370,
    1444, 1521, 1600, 1681, 1764, 1850, 1938, 2029,
    2122, 2217, 2315, 2416, 2519, 2624, 2732, 2843,
    2956, 3071, 3190, 3310, 3434, 3560, 3689, 3820,
    3955, 4092, 4231, 4374, 4519, 4667, 4817, 4971,
    5127, 5286, 5448, 5613, 5781, 5951, 6125, 6301,
    6480, 6663, 6848, 7036, 7227, 7421, 7619, 7819,
    8022, 8228, 8438, 8650, 8866, 9084, 9306, 9531,
    9759, 9990, 10224, 10462, 10702, 10946, 11193, 11444,
    11697, 11954, 12214, 12477, 12744, 13014, 13287, 13563,
    13843, 14126, 14413, 14703, 14996, 15293, 15593, 15896,
    16203, 16513, 16827, 17144, 17465, 17789, 18116, 18447,
    18782, 19120, 19462, 19807, 20156, 20508, 20864, 21223,
    21586, 21953, 22323, 22697, 23074, 23455, 23840, 24228,
    24620, 25016, 25415, 25818, 26225, 26636, 27050, 27468,
    27889, 28315, 28744, 29177, 29614, 30054, 30499, 30947,
    31399, 31855, 32314, 32778, 33245, 33716, 34191, 34670,
    35153, 35640, 36131, 36625, 37124, 37626, 38133, 38643,
    39157, 39676, 40198, 40724, 41254, 41789, 42327, 42869,
    43415, 43966, 44520, 45079, 45641, 46208, 46778, 47353,
    47932, 48515, 49102, 49693, 50289, 50888, 51492, 52100,
    52712, 53328, 53948, 54572, 55201, 55834, 56471, 57112,
    57758, 58408, 59062, 59720, 60383, 61050, 61721, 62396,
    63076, 63760, 64448, 65141, 65837, 66539, 67244, 67954,
    68669, 69387, 70110, 70838, 71569, 72306, 73046, 73791,
    74540, 75294, 76052, 76815, 77582, 78354, 79130, 79910,
    80695, 81485, 82279, 83077, 83880, 84687, 85499, 86316,
    87137, 87962, 88792, 89627, 90466, 91310, 92158, 93011,
    93869, 94731, 95597, 96469, 97345, 98225, 99110, 100000 >>

gamma_correct(c) == GammaTable[c + 1]

\* X / white, where X has scale 10^9 and white scale 10^5; result scale 10^6.
WhiteNormalize(X, white) == (X \div white) * 100 + ((X % white) * 100) \div white

\* f(t) of the XYZ -> LAB step, t at scale 10^6, result at scale 10^4:
\* t ** (1/3) above 0.008856, 7.787 * t + 16/116 below.
lab_f(T) ==
    IF T > 8856 THEN CbrtNewton(T, 10001)
    ELSE (7787 * T) \div 100000 + 1379

rgb_to_lab(rgb) ==
    LET r  == gamma_correct(rgb[1])
        g  == gamma_correct(rgb[2])
        b  == gamma_correct(rgb[3])
        x  == WhiteNormalize(r * 4125 + g * 3576 + b * 1804, 95047)
        yy == WhiteNormalize(r * 2127 + g * 7152 + b * 722, 100000)
        z  == WhiteNormalize(r * 193 + g * 1192 + b * 9503, 108883)
        fx == lab_f(x)
        fy == lab_f(yy)
        fz == lab_f(z)
    IN  << (116 * fy - 160000) \div 100, 5 * (fx - fy), 2 * (fy - fz) >>

(***************************************************************************)
(* Perceptual distances (squared).                                         *)
(***************************************************************************)
delta_e_cie76(lab1, lab2) ==
    LET dL == lab2[1] - lab1[1]
        da == lab2[2] - lab1[2]
        db == lab2[3] - lab1[3]
    IN  dL * dL + da * da + db * db

delta_e_ciede2000(lab1, lab2) ==
    LET C1  == ISqrt(lab1[2] * lab1[2] + lab1[3] * lab1[3])
        C2  == ISqrt(lab2[2] * lab2[2] + lab2[3] * lab2[3])
        dL  == lab2[1] - lab1[1]
        dC  == C2 - C1
        da  == lab2[2] - lab1[2]
        db  == lab2[3] - lab1[3]
        dH2 == da * da + db * db - dC * dC
        dHsq == Max(0, dH2)
    IN  dL * dL + dC * dC + dHsq

(***************************************************************************)
(* Palette with LAB values, built in __init__.                             *)
(***************************************************************************)
VARIABLES
    palette,               \* the class attributes: [colors, indices]
    eink_color_list,       \* self.eink_color_list, built by __init__
    cache_writes           \* entries put into self._color_cache after it was built

\* The class attributes as the class body declares them.
DeclaredPalette == [colors |-> EINK_COLORS, indices |-> COLOR_INDICES]

\* self.eink_color_list after the loop of __init__ over EINK_COLORS.items()
build_eink_color_list(colors) ==
    [i \in 1..Len(colors) |->
        [name |-> colors[i].name,
         rgb  |-> colors[i].rgb,
         lab  |-> rgb_to_lab(colors[i].rgb)]]

\* Variant: the index is the entry's position in the list.
PaletteEntryByPosition(i) ==
    [name  |-> eink_color_list[i].name,
     rgb   |-> eink_color_list[i].rgb,
     index |-> i]

\* (name, rgb_val, self.COLOR_INDICES[name])
PaletteEntry(i) ==
    [name  |-> eink_color_list[i].name,
     rgb   |-> eink_color_list[i].rgb,
     index |-> palette.indices[eink_color_list[i].name]]

\* distance of every palette entry from target_lab, in list order
PaletteDistances(target_lab, use_ciede2000) ==
    [i \in 1..Len(eink_color_list) |->
        IF use_ciede2000
        THEN delta_e_ciede2000(target_lab, eink_color_list[i].lab)
        ELSE delta_e_cie76(target_lab, eink_color_list[i].lab)]

\* The scan if a later entry at an equal distance replaced the earlier one.
RECURSIVE DirectScanLastWins(_, _, _)
DirectScanLastWins(distances, i, best) ==
    IF i > Len(eink_color_list) THEN best
    ELSE IF best = 0 \/ distances[i] <= distances[best]
         THEN DirectScanLastWins(distances, i + 1, i)
         ELSE DirectScanLastWins(distances, i + 1, best)

\* The loop of _find_closest_eink_color_direct from entry i on: best is the
\* position of closest_color so far (0: None, min_distance = inf); only a
\* strictly smaller distance replaces it.
RECURSIVE DirectScan(_, _, _)
DirectScan(distances, i, best) ==
    IF i > Len(eink_color_list) THEN best
    ELSE IF best = 0 \/ distances[i] < distances[best]
         THEN DirectScan(distances, i + 1, i)
         ELSE DirectScan(distances, i + 1, best)

find_closest_eink_color_direct(rgb, use_ciede2000) ==
    PaletteEntry(DirectScan(PaletteDistances(rgb_to_lab(rgb), use_ciede2000), 1, 0))

(***************************************************************************)
(* Lookup table.                                                           *)
(***************************************************************************)
CacheStep == 4

\* range(0, 256, step)
CacheLevels == {v \in 0..255 : v % CacheStep = 0}

\* _color_cache as _build_color_lookup_table leaves it: one entry per triple of
\* cache levels, each the direct match of that triple.  The table is written
\* only during construction, so it is a constant of every behaviour.
color_cache ==
    [k \in CacheLevels \X CacheLevels \X CacheLevels |->
        find_closest_eink_color_direct(k, TRUE)]

\* Variant: the key is the colour itself, with no rounding to the grid.
CacheKeyExact(rgb) == rgb

\* Variant: the lookup rounds to a coarser grid than the table was built on.
CacheKeyCoarse(rgb) ==
    << (rgb[1] \div 8) * 8, (rgb[2] \div 8) * 8, (rgb[3] \div 8) * 8 >>

\* Variant: the key is built from the channels in the order g, b, r.
CacheKeyRotated(rgb) ==
    << (rgb[2] \div 4) * 4, (rgb[3] \div 4) * 4, (rgb[1] \div 4) * 4 >>

\* (r // 4) * 4, (g // 4) * 4, (b // 4) * 4
CacheKey(rgb) ==
    << (rgb[1] \div 4) * 4, (rgb[2] \div 4) * 4, (rgb[3] \div 4) * 4 >>

find_closest_eink_color(rgb, use_ciede2000) ==
    IF CacheKey(rgb) \in DOMAIN cache_writes
    THEN cache_writes[CacheKey(rgb)]
    ELSE IF CacheKey(rgb) \in DOMAIN color_cache
    THEN color_cache[CacheKey(rgb)]
    ELSE find_closest_eink_color_direct(rgb, use_ciede2000)

(***************************************************************************)
(* Images.  A raster is a record [h, w, px] with px a function from        *)
(* <<y, x>> to an RGB triple (np.array(image) has shape (height, width,    *)
(* 3)).                                                                    *)
(***************************************************************************)
Pixels(h, w) == (0..(h - 1)) \X (0..(w - 1))

NoImage == [h |-> 0, w |-> 0, px |-> <<>>]

\* Colours of the input rasters of the model.
InputColors == << <<0, 0, 0>>, <<128, 128, 128>> >>

\* The input rasters of the model: every size up to MaxH x MaxW, the colour
\* of pixel (y, x) taken from InputColors at (c0 + cx * x + cy * y): uniform
\* images, stripes, checkerboards and diagonal ramps.
PatternImage(h, w, c0, cx, cy) ==
    [h |-> h, w |-> w,
     px |-> [p \in Pixels(h, w) |->
                InputColors[((c0 + cx * p[2] + cy * p[1]) % Len(InputColors)) + 1]]]

Images ==
    {PatternImage(h, w, c0, cx, cy) :
        h \in 1..MaxH, w \in 1..MaxW,
        c0 \in 0..(Len(InputColors) - 1),
        cx \in 0..(Len(InputColors) - 1),
        cy \in 0..(Len(InputColors) - 1)}

\* np.zeros((height, width, 3), dtype=np.uint8)
\* Variant: the output array allocated as (width, height).
ZeroArrayTransposed(h, w) == [p \in Pixels(w, h) |-> <<0, 0, 0>>]

ZeroArray(h, w) == [p \in Pixels(h, w) |-> <<0, 0, 0>>]

QuantizeMethods == {"perceptual", "simple"}
AdvancedMethods ==
    {"floyd_steinberg_7color", "jarvis_judice_ninke_7color", "simple", "other"}

VARIABLES
    FAST_DITHER_AVAILABLE, \* module flag set by the import of fast_dither
    weak_promotion,        \* NumPy promotes uint8 scalar (op) Python int to uint8 (NumPy >= 2)
    mapper,                \* "unbuilt" | "ready" | "failed"
    fast_ditherer,         \* self.fast_ditherer: "None" | "obj"
    pc,                    \* "idle" | "row" | "px" | "blue" | "done"
    op,                    \* the method of SevenColorMapper called last
    method,                \* its method argument
    image,                 \* its image argument (the caller's raster)
    img_array,             \* working buffer of the dithering pass (fixed point)
    output_array,          \* output raster being filled
    writes,                \* number of assignments made to each output cell
    y, x,                  \* loop variables of the pass
    local_cache,           \* per-call memo of the dithering pass
    result,                \* the raster returned by the last call, or NoImage
    raised,                \* exception that reached the caller: "none" or its type
    backend_failed,        \* the accelerated backend raised during the last operation
    rng,                   \* state of NumPy's global generator: [seed, pos]
    remembered,            \* history: one earlier blue-noise call
    lookup,                \* the last colour lookup: [fn, rgb, use_ciede2000, entry]
    scan,                  \* the last run of the scan loop alone: [distances, best]
    calendar,              \* the PokemonEInkCalendar, its clock and its panel
    web_server             \* the PokemonWebServer and the thread it runs in

\* State of the colour mapper and of its calls.
mapper_vars == << palette, eink_color_list, cache_writes, scan,
                  FAST_DITHER_AVAILABLE, weak_promotion, mapper, fast_ditherer, pc, op,
                  method, image, img_array, output_array, writes, y, x, local_cache,
                  result, raised, backend_failed, rng, remembered, lookup >>

\* time.time() runs from 1 to MaxClock in the model.
MaxClock == 7

\* self.min_refresh_interval (180 seconds by default), in clock units
min_refresh_interval == 3

\* len(self.pokemon_data), at least 1 after load_pokemon_data
NumPokemon == 2

\* None, as a time stamp
NoTime == 0

\* The calendar after __init__ with a hardware display:
\*   clock              time.time()
\*   demo_mode          self.demo_mode
\*   last_refresh_time  self.last_refresh_time
\*   current_time       the local current_time of update_display
\*   at                 where the running update_display stands:
\*                      "idle" (no call), "render" (the safety check passed),
\*                      "stamped" (current_time taken, epd.display not yet called)
\*   caller, returned   the last operation and what its update_display returned
\*   display_calls      the clock at the last two calls of epd.display
\*   last_full_refresh  self.last_full_refresh
\*   current_pokemon_index  self.current_pokemon_index
\*   enabled, old_mode  argument and return value of the last operation, if it
\*                      was set_demo_mode (FALSE otherwise)
\*   attempts           calls of update_display made by the last operation
\*   displayed          the last operation has called epd.display
CalendarInit ==
    [clock |-> 1, demo_mode |-> FALSE, last_refresh_time |-> NoTime,
     current_time |-> NoTime, at |-> "idle", caller |-> "none",
     returned |-> "none", display_calls |-> <<NoTime, NoTime>>,
     last_full_refresh |-> NoTime, current_pokemon_index |-> 0,
     enabled |-> FALSE, old_mode |-> FALSE, attempts |-> 0, displayed |-> FALSE]

\* Messages appended to _pending_messages in one behaviour of the model.
MaxMessages == 3

\* The web server of the calendar (self.web_server), None until built:
\*   present            self.web_server is set and its thread is started
\*   at                 where the update_display called by a request handler
\*                      stands: "idle" | "render" | "stamped" | "displaying"
\*   current_time       the local current_time of that call
\*   pending_messages   self._pending_messages ([] after __init__); a
\*                      message is the number of its append
\*   checker            _start_message_checker: "off" (not started), "wait"
\*                      (sleeping or about to test the list), "copied" (after
\*                      the copy), "cleared" (after the clear, sending)
\*   messages_to_send   its local messages_to_send
\*   broadcast          the messages it has passed to websocket_manager.broadcast
\*   appended           the number of appends made so far
\*   overlapped         an epd.display call has started while another ran
WebServerInit ==
    [present |-> FALSE, at |-> "idle", current_time |-> NoTime,
     pending_messages |-> <<>>, checker |-> "off", messages_to_send |-> <<>>,
     broadcast |-> <<>>, appended |-> 0, overlapped |-> FALSE]

vars == << calendar, web_server, palette, eink_color_list, cache_writes, scan,
           FAST_DITHER_AVAILABLE, weak_promotion, mapper, fast_ditherer, pc, op,
           method, image, img_array, output_array, writes, y, x, local_cache,
           result, raised, backend_failed, rng, remembered, lookup >>

(***************************************************************************)
(* quantize_image                                                          *)
(***************************************************************************)
\* (a - b) ** 2 for a NumPy uint8 scalar a and a Python int b: uint8
\* arithmetic (mod 256) when NumPy treats the Python int as weak, int64
\* arithmetic otherwise.
ChannelSquare(a, b) ==
    IF weak_promotion
    THEN (((a - b) % 256) * ((a - b) % 256)) % 256
    ELSE (a - b) * (a - b)

\* sum((a - b)**2 for a, b in zip(rgb, eink_rgb)); np.sqrt is monotone
SimpleDistance(rgb, eink_rgb) ==
    LET s == ChannelSquare(rgb[1], eink_rgb[1]) + ChannelSquare(rgb[2], eink_rgb[2])
             + ChannelSquare(rgb[3], eink_rgb[3])
    IN  IF weak_promotion THEN s % 256 ELSE s

RECURSIVE SimpleScan(_, _, _, _, _)
SimpleScan(rgb, i, closest_rgb, found, min_distance) ==
    IF i > Len(palette.colors) THEN closest_rgb
    ELSE LET distance == SimpleDistance(rgb, palette.colors[i].rgb)
         IN  IF ~found \/ distance < min_distance
             THEN SimpleScan(rgb, i + 1, palette.colors[i].rgb, TRUE, distance)
             ELSE SimpleScan(rgb, i + 1, closest_rgb, found, min_distance)

SimpleClosest(rgb) == SimpleScan(rgb, 1, <<0, 0, 0>>, FALSE, 0)

\* Variant: the perceptual branch stores the bucket it looked up, not the
\* colour found there.
quantize_image_bucket(img, m) ==
    [h |-> img.h, w |-> img.w,
     px |-> [p \in Pixels(img.h, img.w) |->
                IF m = "perceptual"
                THEN CacheKey(img.px[p])
                ELSE SimpleClosest(img.px[p])]]

quantize_image(img, m) ==
    [h |-> img.h, w |-> img.w,
     px |-> [p \in Pixels(img.h, img.w) |->
                IF m = "perceptual"
                THEN find_closest_eink_color(img.px[p], TRUE).rgb
                ELSE SimpleClosest(img.px[p])]]

(***************************************************************************)
(* Error diffusion (reference path of quantize_image_advanced_dithering).  *)
(***************************************************************************)
\* One unit of the working buffer: float32 keeps 16 fraction bits at the top
\* of the range 128..255.
FixedOne == 256 * 256

ToFixed(rgb) == << rgb[1] * FixedOne, rgb[2] * FixedOne, rgb[3] * FixedOne >>

\* Variant: the buffer holds the samples scaled to 0..1.
FloatArrayUnit(img) ==
    [p \in Pixels(img.h, img.w) |->
        << ToFixed(img.px[p])[1] \div 255, ToFixed(img.px[p])[2] \div 255,
           ToFixed(img.px[p])[3] \div 255 >>]

\* np.array(image, dtype=np.float32)
FloatArray(img) == [p \in Pixels(img.h, img.w) |-> ToFixed(img.px[p])]

\* np.clip(v, 0, 255)
Clip(v) == Max(0, Min(255 * FixedOne, v))

ClipRGB(v) == << Clip(v[1]), Clip(v[2]), Clip(v[3]) >>

\* .astype(int): the fraction is dropped
AsInt(v) == << v[1] \div FixedOne, v[2] \div FixedOne, v[3] \div FixedOne >>

\* The Floyd-Steinberg kernel with its first entry pointing backwards.
FloydSteinbergKernelLeft ==
    << <<-1, 0, 7, 16>>, <<-1, 1, 3, 16>>, <<0, 1, 5, 16>>, <<1, 1, 1, 16>> >>

\* Kernel entries <<dx, dy, numerator, denominator>>
FloydSteinbergKernel ==
    << <<1, 0, 7, 16>>, <<-1, 1, 3, 16>>, <<0, 1, 5, 16>>, <<1, 1, 1, 16>> >>

\* The Jarvis-Judice-Ninke kernel with the weight of its first entry taken
\* from the second.
JarvisJudiceNinkeKernelLight ==
    << <<1, 0, 5, 48>>, <<2, 0, 5, 48>>,
       <<-2, 1, 3, 48>>, <<-1, 1, 5, 48>>, <<0, 1, 7, 48>>, <<1, 1, 5, 48>>, <<2, 1, 3, 48>>,
       <<-2, 2, 1, 48>>, <<-1, 2, 3, 48>>, <<0, 2, 5, 48>>, <<1, 2, 3, 48>>, <<2, 2, 1, 48>> >>

JarvisJudiceNinkeKernel ==
    << <<1, 0, 7, 48>>, <<2, 0, 5, 48>>,
       <<-2, 1, 3, 48>>, <<-1, 1, 5, 48>>, <<0, 1, 7, 48>>, <<1, 1, 5, 48>>, <<2, 1, 3, 48>>,
       <<-2, 2, 1, 48>>, <<-1, 2, 3, 48>>, <<0, 2, 5, 48>>, <<1, 2, 3, 48>>, <<2, 2, 1, 48>> >>

\* The kernel the reference path selects for a method selector.
error_kernel(m) ==
    IF m = "floyd_steinberg_7color" THEN FloydSteinbergKernel
    ELSE IF m = "jarvis_judice_ninke_7color" THEN JarvisJudiceNinkeKernel
    ELSE FloydSteinbergKernel

\* Variant: the offset is never flipped.
NeighbourXNoFlip(row, col, dx) == col + dx

\* Column of the neighbour for kernel offset dx at (row, col): the offset is
\* flipped on right-to-left rows.
NeighbourX(row, col, dx) == IF row % 2 = 1 THEN col - dx ELSE col + dx

\* Variant: the addition without the clamp.
AddErrorNoClip(v, error_rgb, num, den) ==
    << v[1] + RoundDiv(error_rgb[1] * num, den),
       v[2] + RoundDiv(error_rgb[2] * num, den),
       v[3] + RoundDiv(error_rgb[3] * num, den) >>

\* img_array[ny, nx] += error_rgb * weight, then np.clip(..., out=...)
AddError(v, error_rgb, num, den) ==
    ClipRGB(<< v[1] + RoundDiv(error_rgb[1] * num, den),
               v[2] + RoundDiv(error_rgb[2] * num, den),
               v[3] + RoundDiv(error_rgb[3] * num, den) >>)

\* The loop over error_kernel from entry i on, for the pixel (row, col).
RECURSIVE Distribute(_, _, _, _, _, _, _, _)
Distribute(buf, error_rgb, row, col, h, w, kernel, i) ==
    IF i > Len(kernel) THEN buf
    ELSE LET nx == NeighbourX(row, col, kernel[i][1])
             ny == row + kernel[i][2]
         IN  IF 0 <= nx /\ nx < w /\ 0 <= ny /\ ny < h
             THEN Distribute(
                    [buf EXCEPT ![<<ny, nx>>] =
                        AddError(buf[<<ny, nx>>], error_rgb, kernel[i][3], kernel[i][4])],
                    error_rgb, row, col, h, w, kernel, i + 1)
             ELSE Distribute(buf, error_rgb, row, col, h, w, kernel, i + 1)

\* Variant: the output pixel is set to the colour read, not the colour found.
DitherPixelStepWritesInput(st, row, col, kernel) ==
    LET p           == <<row, col>>
        current_rgb == AsInt(ClipRGB(st.img[p]))
        closest_rgb == find_closest_eink_color(current_rgb, TRUE).rgb
        error_rgb   == << st.img[p][1] - closest_rgb[1] * FixedOne,
                          st.img[p][2] - closest_rgb[2] * FixedOne,
                          st.img[p][3] - closest_rgb[3] * FixedOne >>
    IN  [st EXCEPT
            !.out    = [@ EXCEPT ![p] = current_rgb],
            !.writes = [@ EXCEPT ![p] = @ + 1],
            !.img    = Distribute(@, error_rgb, row, col, st.h, st.w, kernel, 1)]

\* The inner loop if it also stored its lookup in self._color_cache.
DitherPixelStepWritesShared(st, row, col, kernel) ==
    LET p           == <<row, col>>
        current_rgb == AsInt(ClipRGB(st.img[p]))
        found       == find_closest_eink_color(current_rgb, TRUE)
        closest_rgb == found.rgb
        error_rgb   == << st.img[p][1] - closest_rgb[1] * FixedOne,
                          st.img[p][2] - closest_rgb[2] * FixedOne,
                          st.img[p][3] - closest_rgb[3] * FixedOne >>
    IN  [st EXCEPT
            !.shared = (CacheKey(current_rgb) :> found) @@ @,
            !.out    = [@ EXCEPT ![p] = closest_rgb],
            !.writes = [@ EXCEPT ![p] = @ + 1],
            !.img    = Distribute(@, error_rgb, row, col, st.h, st.w, kernel, 1)]

\* The inner loop if img_array were a view of the caller's raster instead
\* of a copy: what is added to the buffer shows in the caller's image.
DitherPixelStepAliased(st, row, col, kernel) ==
    LET p           == <<row, col>>
        current_rgb == AsInt(ClipRGB(st.img[p]))
        hit         == current_rgb \in DOMAIN st.cache
        closest_rgb == IF hit THEN st.cache[current_rgb]
                       ELSE find_closest_eink_color(current_rgb, TRUE).rgb
        error_rgb   == << st.img[p][1] - closest_rgb[1] * FixedOne,
                          st.img[p][2] - closest_rgb[2] * FixedOne,
                          st.img[p][3] - closest_rgb[3] * FixedOne >>
        buf         == Distribute(st.img, error_rgb, row, col, st.h, st.w, kernel, 1)
    IN  [st EXCEPT
            !.cache  = IF hit THEN @ ELSE (current_rgb :> closest_rgb) @@ @,
            !.out    = [@ EXCEPT ![p] = closest_rgb],
            !.writes = [@ EXCEPT ![p] = @ + 1],
            !.img    = buf,
            !.input  = [@ EXCEPT !.px = [q \in DOMAIN buf |-> AsInt(ClipRGB(buf[q]))]]]

\* Body of the inner loop for pixel (row, col).  st is the pass's state:
\* [h, w, img, out, cache, writes, shared, input]; shared is what the pass
\* has put into self._color_cache and input is the caller's raster, both of
\* which the loop only reads.
DitherPixelStep(st, row, col, kernel) ==
    LET p           == <<row, col>>
        current_rgb == AsInt(ClipRGB(st.img[p]))
        hit         == current_rgb \in DOMAIN st.cache
        closest_rgb == IF hit THEN st.cache[current_rgb]
                       ELSE find_closest_eink_color(current_rgb, TRUE).rgb
        error_rgb   == << st.img[p][1] - closest_rgb[1] * FixedOne,
                          st.img[p][2] - closest_rgb[2] * FixedOne,
                          st.img[p][3] - closest_rgb[3] * FixedOne >>
    IN  [st EXCEPT
            !.cache  = IF hit THEN @ ELSE (current_rgb :> closest_rgb) @@ @,
            !.out    = [@ EXCEPT ![p] = closest_rgb],
            !.writes = [@ EXCEPT ![p] = @ + 1],
            !.img    = Distribute(@, error_rgb, row, col, st.h, st.w, kernel, 1)]

\* x_range of a row
FirstX(row, w) == IF row % 2 = 0 THEN 0 ELSE w - 1
LastX(row, w)  == IF row % 2 = 0 THEN w - 1 ELSE 0
StepX(row, col) == IF row % 2 = 0 THEN col + 1 ELSE col - 1

\* State of a pass at its start.
PassStart(img) ==
    [h |-> img.h, w |-> img.w, img |-> FloatArray(img),
     out |-> ZeroArray(img.h, img.w), cache |-> <<>>,
     writes |-> [p \in Pixels(img.h, img.w) |-> 0], shared |-> cache_writes,
     input |-> img]

\* The whole pass from pixel (row, col) on.
RECURSIVE RunPass(_, _, _, _)
RunPass(st, row, col, kernel) ==
    IF row >= st.h THEN st
    ELSE LET st2 == DitherPixelStep(st, row, col, kernel)
         IN  IF col = LastX(row, st.w)
             THEN RunPass(st2, row + 1, FirstX(row + 1, st.w), kernel)
             ELSE RunPass(st2, row, StepX(row, col), kernel)

\* The raster a finished reference pass returns for a kernel.
ReferenceDither(img, kernel) ==
    [h |-> img.h, w |-> img.w, px |-> RunPass(PassStart(img), 0, 0, kernel).out]

(***************************************************************************)
(* Accelerated backend (module fast_dither).  Its two entry points are     *)
(* taken to be what the specification requires of them: the reference      *)
(* algorithm with the kernel the entry point names.                        *)
(***************************************************************************)
floyd_steinberg_dither(img) == ReferenceDither(img, FloydSteinbergKernel)

jarvis_judice_ninke_dither(img) == ReferenceDither(img, JarvisJudiceNinkeKernel)

\* The dispatch of the accelerated branch.
FastDispatch(img, m) ==
    IF m = "jarvis_judice_ninke_7color" THEN jarvis_judice_ninke_dither(img)
    ELSE IF m = "floyd_steinberg_7color" THEN floyd_steinberg_dither(img)
    ELSE jarvis_judice_ninke_dither(img)

(***************************************************************************)
(* Blue-noise mode.                                                        *)
(***************************************************************************)
\* np.random.random() after np.random.seed(s), in thousandths: the first 20
\* draws of the generator for the seed 42 of quantize_image_blue_noise, and
\* for seed 0 as the stream of any other consumer.  The model repeats a
\* stream after its 20 tabulated draws.
RandomStream(seed) ==
    IF seed = 42
    THEN << 374, 950, 731, 598, 156, 155, 58, 866, 601, 708,
            20, 969, 832, 212, 181, 183, 304, 524, 431, 291 >>
    ELSE << 548, 715, 602, 544, 423, 645, 437, 891, 963, 383,
            791, 528, 568, 925, 71, 87, 20, 832, 778, 870 >>

\* The value np.random.random() returns in generator state g.
Threshold(g) == RandomStream(g.seed)[(g.pos % Len(RandomStream(g.seed))) + 1]

\* Variant: the generator is left as the call found it.
BlueSeedKept == rng

\* np.random.seed(42)
BlueSeed == [seed |-> 42, pos |-> 0]

\* distances[i] of the per-pixel list: (distance, name, eink_rgb)
BlueDistance(rgb, i) ==
    [distance |-> delta_e_ciede2000(rgb_to_lab(rgb), rgb_to_lab(palette.colors[i].rgb)),
     name     |-> palette.colors[i].name,
     rgb      |-> palette.colors[i].rgb]

\* Tuple order of distances.sort(): by distance, then by name.
SortsBefore(d1, d2) ==
    \/ d1.distance < d2.distance
    \/ d1.distance = d2.distance /\ NameRank(d1.name) < NameRank(d2.name)

\* distances[k] after distances.sort(), k = 0 or 1
SortedDistance(rgb, k) ==
    LET ds == {BlueDistance(rgb, i) : i \in 1..Len(palette.colors)}
    IN  CHOOSE d \in ds : Cardinality({e \in ds : SortsBefore(e, d)}) = k

\* Variant: the closest colour is written when the threshold is high.
BlueChoiceSwapped(rgb, threshold) ==
    IF threshold < 700 THEN SortedDistance(rgb, 1).rgb ELSE SortedDistance(rgb, 0).rgb

\* The colour written for a pixel under a threshold (in thousandths).
BlueChoice(rgb, threshold) ==
    IF threshold < 700 THEN SortedDistance(rgb, 0).rgb ELSE SortedDistance(rgb, 1).rgb

(***************************************************************************)
(* Initial state: the module is imported, no mapper is constructed yet.    *)
(***************************************************************************)
NoMemory == [image |-> NoImage, output |-> NoImage, disturbed |-> FALSE]

NoEntry == [name |-> "none", rgb |-> <<0, 0, 0>>, index |-> 0]

NoLookup == [fn |-> "none", rgb |-> <<0, 0, 0>>, use_ciede2000 |-> TRUE, entry |-> NoEntry]

NoScan == [distances |-> <<>>, best |-> 0]

InitWith(p) ==
    /\ calendar = CalendarInit
    /\ web_server = WebServerInit
    /\ palette = p
    /\ eink_color_list = <<>>
    /\ cache_writes = <<>>
    /\ scan = NoScan
    /\ FAST_DITHER_AVAILABLE \in BOOLEAN
    /\ weak_promotion \in BOOLEAN
    /\ mapper = "unbuilt"
    /\ fast_ditherer = "None"
    /\ pc = "idle"
    /\ op = "none"
    /\ method = "none"
    /\ image = NoImage
    /\ img_array = <<>>
    /\ output_array = <<>>
    /\ writes = <<>>
    /\ y = 0
    /\ x = 0
    /\ local_cache = <<>>
    /\ result = NoImage
    /\ raised = "none"
    /\ backend_failed = FALSE
    /\ rng = [seed |-> 0, pos |-> 0]
    /\ remembered = NoMemory
    /\ lookup = NoLookup

Init == InitWith(DeclaredPalette)

\* The locals of a pass are gone once the call has ended.
DropLocals ==
    /\ img_array' = <<>>
    /\ output_array' = <<>>
    /\ writes' = <<>>
    /\ local_cache' = <<>>
    /\ y' = 0
    /\ x' = 0

\* The locals of a pass over img at its first row.
EnterPass(img) ==
    /\ pc' = "row"
    /\ img_array' = FloatArray(img)
    /\ output_array' = ZeroArray(img.h, img.w)
    /\ writes' = [p \in Pixels(img.h, img.w) |-> 0]
    /\ local_cache' = <<>>
    /\ y' = 0
    /\ x' = 0

(***************************************************************************)
(* SevenColorMapper.__init__                                               *)
(***************************************************************************)
\* ctor_fails: fast_dither.FastSevenColorDitherer() raises.  The handler
\* calls logging.warning, and the module never imports logging, so the
\* handler itself raises NameError and no mapper is returned.
\* With no colour in EINK_COLORS the direct scan of the first table key
\* returns None, and unpacking it in _build_color_lookup_table raises
\* TypeError.  Every palette of the model gives each colour name an index.
Construct(ctor_fails) ==
    /\ mapper = "unbuilt"
    /\ eink_color_list' = build_eink_color_list(palette.colors)
    /\ IF Len(palette.colors) = 0
       THEN /\ backend_failed' = FALSE
            /\ raised' = "TypeError"
            /\ mapper' = "failed"
            /\ fast_ditherer' = "None"
       ELSE IF FAST_DITHER_AVAILABLE /\ ctor_fails
       THEN /\ backend_failed' = TRUE
            /\ raised' = "NameError"
            /\ mapper' = "failed"
            /\ fast_ditherer' = "None"
       ELSE /\ backend_failed' = FALSE
            /\ raised' = "none"
            /\ mapper' = "ready"
            /\ fast_ditherer' = IF FAST_DITHER_AVAILABLE THEN "obj" ELSE "None"
    /\ UNCHANGED << calendar, web_server, palette, cache_writes, scan,
                    FAST_DITHER_AVAILABLE, weak_promotion, pc, op, method, image,
                    img_array, output_array, writes, y, x, local_cache, result,
                    rng, remembered, lookup >>

(***************************************************************************)
(* quantize_image(image, method)                                           *)
(***************************************************************************)
QuantizeImage(img, m) ==
    /\ mapper = "ready"
    /\ pc = "idle"
    /\ op' = "quantize_image"
    /\ method' = m
    /\ image' = img
    /\ result' = quantize_image(img, m)
    /\ raised' = "none"
    /\ backend_failed' = FALSE
    /\ pc' = "done"
    /\ DropLocals
    /\ UNCHANGED << calendar, web_server, palette, eink_color_list, cache_writes, scan,
                    FAST_DITHER_AVAILABLE, weak_promotion, mapper, fast_ditherer,
                    rng, remembered, lookup >>

(***************************************************************************)
(* quantize_image_advanced_dithering(image, method)                        *)
(***************************************************************************)
\* Entry of the call up to the first row of the reference pass.
\* fast_fails: the accelerated ditherer raises while dithering; its handler
\* calls logging.error, which raises NameError as in __init__.
AdvancedStart(img, m, fast_fails) ==
    /\ mapper = "ready"
    /\ pc = "idle"
    /\ op' = "quantize_image_advanced_dithering"
    /\ method' = m
    /\ image' = img
    /\ IF fast_ditherer # "None"
       THEN IF fast_fails
            THEN /\ backend_failed' = TRUE
                 /\ raised' = "NameError"
                 /\ result' = NoImage
                 /\ pc' = "done"
                 /\ DropLocals
            ELSE /\ backend_failed' = FALSE
                 /\ raised' = "none"
                 /\ result' = FastDispatch(img, m)
                 /\ pc' = "done"
                 /\ DropLocals
       ELSE /\ backend_failed' = FALSE
            /\ raised' = "none"
            /\ IF m = "simple"
               THEN /\ result' = quantize_image(img, "simple")
                    /\ pc' = "done"
                    /\ DropLocals
               ELSE /\ result' = NoImage
                    /\ EnterPass(img)
    /\ UNCHANGED << calendar, web_server, palette, eink_color_list, cache_writes, scan,
                    FAST_DITHER_AVAILABLE, weak_promotion, mapper, fast_ditherer,
                    rng, remembered, lookup >>

\* Top of "for y in range(height)" with a row left: the progress test, then
\* the choice of x_range.  elapsed: at least 3.0 s have passed since the last
\* progress line, which short-circuits the test "y % (height // 4) == 0";
\* that test divides by zero when height < 4.
DitherRow(elapsed) ==
    /\ pc = "row"
    /\ y < image.h
    /\ IF ~elapsed /\ image.h \div 4 = 0
       THEN /\ raised' = "ZeroDivisionError"
            /\ pc' = "done"
            /\ DropLocals
       ELSE /\ raised' = "none"
            /\ pc' = "px"
            /\ x' = FirstX(y, image.w)
            /\ UNCHANGED << img_array, output_array, writes, local_cache, y >>
    /\ UNCHANGED << calendar, web_server, palette, eink_color_list, cache_writes, scan,
                    FAST_DITHER_AVAILABLE, weak_promotion, mapper, fast_ditherer,
                    op, method, image, result, backend_failed, rng, remembered, lookup >>

\* One iteration of "for x in x_range".
DitherPixel ==
    /\ pc = "px"
    /\ LET st == DitherPixelStep(
                    [h |-> image.h, w |-> image.w, img |-> img_array,
                     out |-> output_array, cache |-> local_cache, writes |-> writes,
                     shared |-> cache_writes, input |-> image],
                    y, x, error_kernel(method))
       IN  /\ image' = st.input
           /\ img_array' = st.img
           /\ output_array' = st.out
           /\ local_cache' = st.cache
           /\ writes' = st.writes
           /\ cache_writes' = st.shared
    /\ IF x = LastX(y, image.w)
       THEN pc' = "row" /\ y' = y + 1 /\ x' = x
       ELSE pc' = "px" /\ y' = y /\ x' = StepX(y, x)
    /\ UNCHANGED << calendar, web_server, palette, eink_color_list, scan,
                    FAST_DITHER_AVAILABLE, weak_promotion, mapper, fast_ditherer,
                    op, method, result, raised, backend_failed, rng,
                    remembered, lookup >>

\* The rows are exhausted: return Image.fromarray(output_array, 'RGB').
DitherReturn ==
    /\ pc = "row"
    /\ y = image.h
    /\ result' = [h |-> image.h, w |-> image.w, px |-> output_array]
    /\ pc' = "done"
    /\ UNCHANGED << calendar, web_server, palette, eink_color_list, cache_writes, scan,
                    FAST_DITHER_AVAILABLE, weak_promotion, mapper, fast_ditherer,
                    op, method, image, img_array, output_array, writes, y, x,
                    local_cache, raised, backend_failed, rng, remembered, lookup >>

(***************************************************************************)
(* quantize_image_blue_noise(image)                                        *)
(***************************************************************************)
BlueStart(img) ==
    /\ mapper = "ready"
    /\ pc = "idle"
    /\ op' = "quantize_image_blue_noise"
    /\ method' = "none"
    /\ image' = img
    /\ result' = NoImage
    /\ raised' = "none"
    /\ backend_failed' = FALSE
    /\ rng' = BlueSeed
    /\ pc' = "blue"
    /\ img_array' = <<>>
    /\ output_array' = ZeroArray(img.h, img.w)
    /\ writes' = [p \in Pixels(img.h, img.w) |-> 0]
    /\ local_cache' = <<>>
    /\ y' = 0
    /\ x' = 0
    /\ UNCHANGED << calendar, web_server, palette, eink_color_list, cache_writes, scan,
                    FAST_DITHER_AVAILABLE, weak_promotion, mapper, fast_ditherer,
                    remembered, lookup >>

\* One iteration of the inner loop, rows top to bottom, left to right.
BluePixel ==
    /\ pc = "blue"
    /\ y < image.h
    /\ output_array' = [output_array EXCEPT
                           ![<<y, x>>] = BlueChoice(image.px[<<y, x>>], Threshold(rng))]
    /\ writes' = [writes EXCEPT ![<<y, x>>] = @ + 1]
    /\ rng' = [rng EXCEPT !.pos = @ + 1]
    /\ IF x = image.w - 1
       THEN y' = y + 1 /\ x' = 0
       ELSE y' = y /\ x' = x + 1
    /\ UNCHANGED << calendar, web_server, palette, eink_color_list, cache_writes, scan,
                    FAST_DITHER_AVAILABLE, weak_promotion, mapper, fast_ditherer,
                    pc, op, method, image, img_array, local_cache, result, raised,
                    backend_failed, remembered, lookup >>

BlueReturn ==
    /\ pc = "blue"
    /\ y = image.h
    /\ result' = [h |-> image.h, w |-> image.w, px |-> output_array]
    /\ pc' = "done"
    /\ UNCHANGED << calendar, web_server, palette, eink_color_list, cache_writes, scan,
                    FAST_DITHER_AVAILABLE, weak_promotion, mapper, fast_ditherer,
                    op, method, image, img_array, output_array, writes, y, x,
                    local_cache, raised, backend_failed, rng, remembered, lookup >>

(***************************************************************************)
(* Colour lookups called on their own.                                     *)
(***************************************************************************)
\* Colours of the lookups of the model: on and off the grid of the table.
ProbeLevels == {0, 20, 108, 111, 252, 255}

ProbeColors == ProbeLevels \X ProbeLevels \X ProbeLevels

\* find_closest_eink_color(rgb, use_ciede2000)
FindClosest(rgb, use_ciede2000) ==
    /\ mapper = "ready"
    /\ pc = "idle"
    /\ op' = "find_closest_eink_color"
    /\ lookup' = [fn |-> "find_closest_eink_color", rgb |-> rgb,
                  use_ciede2000 |-> use_ciede2000,
                  entry |-> find_closest_eink_color(rgb, use_ciede2000)]
    /\ pc' = "done"
    /\ raised' = "none"
    /\ backend_failed' = FALSE
    /\ UNCHANGED << calendar, web_server, palette, eink_color_list, cache_writes, scan,
                    FAST_DITHER_AVAILABLE, weak_promotion, mapper, fast_ditherer,
                    method, image, img_array, output_array, writes, y, x,
                    local_cache, result, rng, remembered >>

\* _find_closest_eink_color_direct(rgb, use_ciede2000)
FindClosestDirect(rgb, use_ciede2000) ==
    /\ mapper = "ready"
    /\ pc = "idle"
    /\ op' = "_find_closest_eink_color_direct"
    /\ lookup' = [fn |-> "_find_closest_eink_color_direct", rgb |-> rgb,
                  use_ciede2000 |-> use_ciede2000,
                  entry |-> find_closest_eink_color_direct(rgb, use_ciede2000)]
    /\ pc' = "done"
    /\ raised' = "none"
    /\ backend_failed' = FALSE
    /\ UNCHANGED << calendar, web_server, palette, eink_color_list, cache_writes, scan,
                    FAST_DITHER_AVAILABLE, weak_promotion, mapper, fast_ditherer,
                    method, image, img_array, output_array, writes, y, x,
                    local_cache, result, rng, remembered >>

\* Largest distance in the vectors the scan loop is run on by itself.
MaxDistance == 1

\* The scan loop of _find_closest_eink_color_direct on its own: the delta-E
\* values the loop would compute are the input, one per palette entry in
\* list order, so that equal distances occur.
ScanDistances(distances) ==
    /\ mapper = "ready"
    /\ pc = "idle"
    /\ op' = "_find_closest_eink_color_direct"
    /\ scan' = [distances |-> distances, best |-> DirectScan(distances, 1, 0)]
    /\ pc' = "done"
    /\ raised' = "none"
    /\ backend_failed' = FALSE
    /\ UNCHANGED << calendar, web_server, palette, eink_color_list, cache_writes,
                    FAST_DITHER_AVAILABLE, weak_promotion, mapper, fast_ditherer,
                    method, image, img_array, output_array, writes, y, x,
                    local_cache, result, rng, remembered, lookup >>

(***************************************************************************)
(* Other users of NumPy's global generator, between two calls.             *)
(***************************************************************************)
\* Most draws another consumer makes in a row.
MaxDraws == 3

\* np.random.seed(0) by other code
RngSeed ==
    /\ pc = "idle"
    /\ rng' = [seed |-> 0, pos |-> 0]
    /\ remembered' = [remembered EXCEPT !.disturbed = (remembered.image # NoImage)]
    /\ UNCHANGED << calendar, web_server, palette, eink_color_list, cache_writes, scan,
                    FAST_DITHER_AVAILABLE, weak_promotion, mapper, fast_ditherer,
                    pc, op, method, image, img_array, output_array, writes, y, x,
                    local_cache, result, raised, backend_failed, lookup >>

\* np.random.random() by other code
RngDraw ==
    /\ pc = "idle"
    /\ rng.pos < MaxDraws
    /\ rng' = [rng EXCEPT !.pos = @ + 1]
    /\ remembered' = [remembered EXCEPT !.disturbed = (remembered.image # NoImage)]
    /\ UNCHANGED << calendar, web_server, palette, eink_color_list, cache_writes, scan,
                    FAST_DITHER_AVAILABLE, weak_promotion, mapper, fast_ditherer,
                    pc, op, method, image, img_array, output_array, writes, y, x,
                    local_cache, result, raised, backend_failed, lookup >>

(***************************************************************************)
(* The caller.                                                             *)
(***************************************************************************)
\* The caller has taken the returned raster (or the exception) and drops it;
\* the mapper is ready for the next call.
Release ==
    /\ pc = "done"
    /\ pc' = "idle"
    /\ op' = "none"
    /\ method' = "none"
    /\ image' = NoImage
    /\ result' = NoImage
    /\ raised' = "none"
    /\ backend_failed' = FALSE
    /\ lookup' = NoLookup
    /\ scan' = NoScan
    /\ DropLocals
    /\ UNCHANGED << calendar, web_server, palette, eink_color_list, cache_writes,
                    FAST_DITHER_AVAILABLE, weak_promotion, mapper, fast_ditherer,
                    rng, remembered >>

\* The caller keeps the raster a blue-noise call returned, to compare later
\* calls on the same input with it.
Remember ==
    /\ pc = "done"
    /\ op = "quantize_image_blue_noise"
    /\ remembered = NoMemory
    /\ remembered' = [image |-> image, output |-> result, disturbed |-> FALSE]
    /\ pc' = "idle"
    /\ op' = "none"
    /\ method' = "none"
    /\ image' = NoImage
    /\ result' = NoImage
    /\ raised' = "none"
    /\ backend_failed' = FALSE
    /\ DropLocals
    /\ UNCHANGED << calendar, web_server, palette, eink_color_list, cache_writes, scan,
                    FAST_DITHER_AVAILABLE, weak_promotion, mapper, fast_ditherer,
                    rng, lookup >>

(***************************************************************************)
(* Specifications.                                                         *)
(***************************************************************************)
\* Spec: construction and the three quantisers, one call after another.
Next ==
    \/ \E ctor_fails \in BOOLEAN : Construct(ctor_fails)
    \/ \E img \in Images, m \in QuantizeMethods : QuantizeImage(img, m)
    \/ \E img \in Images, m \in AdvancedMethods, fast_fails \in BOOLEAN :
          AdvancedStart(img, m, fast_fails)
    \/ \E elapsed \in BOOLEAN : DitherRow(elapsed)
    \/ DitherPixel
    \/ DitherReturn
    \/ \E img \in Images : BlueStart(img)
    \/ BluePixel
    \/ BlueReturn
    \/ \E rgb \in ProbeColors, u \in BOOLEAN : FindClosest(rgb, u)
    \/ Release

Spec == Init /\ [][Next]_vars

\* SpecLookup: the two colour lookups on the probe colours.
NextLookup ==
    \/ \E ctor_fails \in BOOLEAN : Construct(ctor_fails)
    \/ \E rgb \in ProbeColors, u \in BOOLEAN : FindClosest(rgb, u)
    \/ \E rgb \in ProbeColors, u \in BOOLEAN : FindClosestDirect(rgb, u)
    \/ Release

SpecLookup == Init /\ [][NextLookup]_vars

\* Construction and lookups when the class attributes are not the declared
\* ones (a subclass, or an edit of the class body, may set them): no colour
\* at all, or ORANGE given the index of YELLOW.
EmptyPalette == [colors |-> <<>>, indices |-> [n \in {} |-> 0]]

DuplicateIndexPalette ==
    [colors |-> EINK_COLORS, indices |-> [COLOR_INDICES EXCEPT !["ORANGE"] = 5]]

Palettes == {DeclaredPalette, EmptyPalette, DuplicateIndexPalette}

InitPalette == \E p \in Palettes : InitWith(p)

NextPalette ==
    \/ \E ctor_fails \in BOOLEAN : Construct(ctor_fails)
    \/ \E rgb \in ProbeColors, u \in BOOLEAN : FindClosest(rgb, u)
    \/ Release

SpecPalette == InitPalette /\ [][NextPalette]_vars

(***************************************************************************)
(* PokemonEInkCalendar: the display update and its callers, run by one     *)
(* thread with a hardware display (self.epd is set).                       *)
(***************************************************************************)
\* can_refresh_display(): last_refresh_time is tested for truth, so None and
\* 0 both skip the interval check.
can_refresh_display(c) ==
    ~ (c.last_refresh_time # NoTime
         /\ c.clock - c.last_refresh_time < min_refresh_interval)

\* The head of update_display, entered from the operation caller: the safety
\* check returns False at once or lets the update go on to render the image.
UpdateEnter(c, caller) ==
    LET e == [c EXCEPT !.caller = caller, !.enabled = FALSE, !.old_mode = FALSE,
                       !.attempts = 1, !.displayed = FALSE]
    IN  IF can_refresh_display(c)
        THEN [e EXCEPT !.returned = "pending", !.at = "render"]
        ELSE [e EXCEPT !.returned = "False"]

\* An operation that returns without calling update_display.
NoUpdate(c, caller) ==
    [c EXCEPT !.caller = caller, !.returned = "none", !.enabled = FALSE,
              !.old_mode = FALSE, !.attempts = 0, !.displayed = FALSE]

\* Variant: leaving demo mode keeps the index where the demo left it.
SetDemoIndexKept(current, enabled, index) == IF enabled THEN index ELSE current

\* current_pokemon_index after a set_demo_mode that changes the mode: index
\* is what random.randint(0, max_index) returned.
SetDemoIndex(current, enabled, index) == IF enabled THEN index ELSE 0

\* update_display() called directly (run(), the web server)
UpdateDisplay ==
    /\ calendar.at = "idle"
    /\ calendar' = UpdateEnter(calendar, "update_display")
    /\ UNCHANGED << mapper_vars, web_server >>

\* demo_cycle(); index is what random.randint(0, max_index) returns
DemoCycle(index) ==
    /\ calendar.at = "idle"
    /\ calendar' = IF calendar.demo_mode
                   THEN UpdateEnter([calendar EXCEPT !.current_pokemon_index = index],
                                    "demo_cycle")
                   ELSE NoUpdate(calendar, "demo_cycle")
    /\ UNCHANGED << mapper_vars, web_server >>

\* set_demo_mode(enabled); index is what random.randint(0, max_index) returns
\* when it is called.  The result is old_mode.
SetDemoMode(enabled, index) ==
    /\ calendar.at = "idle"
    /\ LET old_mode == calendar.demo_mode
           c == [calendar EXCEPT !.demo_mode = enabled]
           r == IF old_mode # enabled
                THEN UpdateEnter(
                        [c EXCEPT !.current_pokemon_index =
                                     SetDemoIndex(@, enabled, index)],
                        "set_demo_mode")
                ELSE NoUpdate(c, "set_demo_mode")
       IN  calendar' = [r EXCEPT !.enabled = enabled, !.old_mode = old_mode]
    /\ UNCHANGED << mapper_vars, web_server >>

\* midnight_update()
MidnightUpdate ==
    /\ calendar.at = "idle"
    /\ calendar' = IF ~calendar.demo_mode
                   THEN UpdateEnter(calendar, "midnight_update")
                   ELSE NoUpdate(calendar, "midnight_update")
    /\ UNCHANGED << mapper_vars, web_server >>

\* update_display after the check: the image is created and saved, then
\* current_time = time.time() is taken.
UpdateStamp ==
    /\ calendar.at = "render"
    /\ calendar' = [calendar EXCEPT !.current_time = calendar.clock,
                                    !.at = "stamped"]
    /\ UNCHANGED << mapper_vars, web_server >>

\* The tail of update_display: with a web server the display_updated
\* message is appended to its _pending_messages.
QueueMessage(w) ==
    IF w.present
    THEN [w EXCEPT !.pending_messages = Append(@, w.appended + 1),
                   !.appended = @ + 1]
    ELSE w

\* update_display calls self.epd.display(...).  If the call raises, the
\* handler of update_display returns False and the safety tracking is not
\* touched; otherwise last_refresh_time = current_time, the web server is
\* notified and True is returned.
EpdDisplay(display_raises) ==
    /\ calendar.at = "stamped"
    /\ (web_server.present /\ ~display_raises) => web_server.appended < MaxMessages
    /\ LET w == [web_server EXCEPT
                    !.overlapped = @ \/ web_server.at = "displaying"]
       IN  web_server' = IF display_raises THEN w ELSE QueueMessage(w)
    /\ LET called == [calendar EXCEPT
                         !.display_calls = << @[2], calendar.clock >>,
                         !.at = "idle"]
       IN  calendar' = IF display_raises
                       THEN [called EXCEPT !.returned = "False", !.displayed = TRUE]
                       ELSE [called EXCEPT !.returned = "True", !.displayed = TRUE,
                                           !.last_refresh_time = calendar.current_time,
                                           !.last_full_refresh = calendar.current_time]
    /\ UNCHANGED mapper_vars

\* A second passes, wherever the thread stands.
Tick ==
    /\ calendar.clock < MaxClock
    /\ calendar' = [calendar EXCEPT !.clock = @ + 1]
    /\ UNCHANGED << mapper_vars, web_server >>

NextDisplay ==
    \/ UpdateDisplay
    \/ \E index \in 0..(NumPokemon - 1) : DemoCycle(index)
    \/ \E enabled \in BOOLEAN, index \in 0..(NumPokemon - 1) : SetDemoMode(enabled, index)
    \/ MidnightUpdate
    \/ UpdateStamp
    \/ \E display_raises \in BOOLEAN : EpdDisplay(display_raises)
    \/ Tick

SpecDisplay == Init /\ [][NextDisplay]_vars

(***************************************************************************)
(* PokemonWebServer: uvicorn runs in a daemon thread started by start();   *)
(* its request handlers and its message checker share the event loop of    *)
(* that thread and work on the calendar object of the main thread.  No     *)
(* lock guards the calendar or the message list.                           *)
(***************************************************************************)
\* The calendar is built with enable_web_server and run() starts the server
\* thread, before the first update.
StartWebServer ==
    /\ ~web_server.present
    /\ calendar.at = "idle" /\ calendar.caller = "none"
    /\ web_server' = [web_server EXCEPT !.present = TRUE]
    /\ UNCHANGED << calendar, mapper_vars >>

\* POST /api/update-display: the handler calls update_display() of the
\* calendar in the server thread.  The safety check reads the calendar's
\* last_refresh_time; when it refuses, the call returns at once.
WebUpdateDisplay ==
    /\ web_server.present
    /\ web_server.at = "idle"
    /\ web_server.checker # "copied"
    /\ web_server' = IF can_refresh_display(calendar)
                     THEN [web_server EXCEPT !.at = "render"]
                     ELSE web_server
    /\ UNCHANGED << calendar, mapper_vars >>

\* that call takes current_time = time.time()
WebStamp ==
    /\ web_server.at = "render"
    /\ web_server' = [web_server EXCEPT !.current_time = calendar.clock,
                                        !.at = "stamped"]
    /\ UNCHANGED << calendar, mapper_vars >>

\* that call enters self.epd.display(...)
WebDisplayBegin ==
    /\ web_server.at = "stamped"
    /\ calendar' = [calendar EXCEPT !.display_calls = << @[2], calendar.clock >>]
    /\ web_server' = [web_server EXCEPT !.at = "displaying"]
    /\ UNCHANGED mapper_vars

\* epd.display returns or raises in that call; on return the safety
\* tracking is written and the message is queued.
WebDisplayEnd(display_raises) ==
    /\ web_server.at = "displaying"
    /\ ~display_raises => web_server.appended < MaxMessages
    /\ calendar' = IF display_raises
                   THEN calendar
                   ELSE [calendar EXCEPT
                            !.last_refresh_time = web_server.current_time,
                            !.last_full_refresh = web_server.current_time]
    /\ LET w == [web_server EXCEPT !.at = "idle"]
       IN  web_server' = IF display_raises THEN w ELSE QueueMessage(w)
    /\ UNCHANGED mapper_vars

\* The two threads, when no driver call raises and no time passes between
\* taking current_time and calling epd.display: what is left is the
\* interleaving of the threads.
ThreadsTick ==
    /\ calendar.at # "stamped"
    /\ web_server.at # "stamped"
    /\ Tick

NextThreads ==
    \/ StartWebServer
    \/ UpdateDisplay
    \/ MidnightUpdate
    \/ UpdateStamp
    \/ EpdDisplay(FALSE)
    \/ WebUpdateDisplay
    \/ WebStamp
    \/ WebDisplayBegin
    \/ WebDisplayEnd(FALSE)
    \/ ThreadsTick

SpecThreads == Init /\ [][NextThreads]_vars

\* The first client connects to /ws: the handler starts the message checker
\* as a task of the server's event loop.
WebSocketConnect ==
    /\ web_server.present
    /\ web_server.at = "idle"
    /\ web_server.checker = "off"
    /\ web_server' = [web_server EXCEPT !.checker = "wait"]
    /\ UNCHANGED << calendar, mapper_vars >>

\* messages_to_send = self._pending_messages.copy()
CheckerTake(w) ==
    [w EXCEPT !.messages_to_send = w.pending_messages, !.checker = "copied"]

\* _start_message_checker wakes up, finds the list non-empty and copies it.
\* With an empty list it sleeps again, which changes nothing.
CheckerCopy ==
    /\ web_server.at = "idle"
    /\ web_server.checker = "wait"
    /\ web_server.pending_messages # <<>>
    /\ web_server' = CheckerTake(web_server)
    /\ UNCHANGED << calendar, mapper_vars >>

\* self._pending_messages.clear()
CheckerClear ==
    /\ web_server.checker = "copied"
    /\ web_server' = [web_server EXCEPT !.pending_messages = <<>>,
                                        !.checker = "cleared"]
    /\ UNCHANGED << calendar, mapper_vars >>

\* One turn of the loop over messages_to_send: the message is passed to
\* websocket_manager.broadcast, which catches the failures of its sends.
\* After the last one the checker sleeps.
CheckerBroadcast ==
    /\ web_server.at = "idle"
    /\ web_server.checker = "cleared"
    /\ web_server.messages_to_send # <<>>
    /\ web_server' =
          [web_server EXCEPT
              !.broadcast = Append(@, Head(web_server.messages_to_send)),
              !.messages_to_send = Tail(@),
              !.checker = IF Tail(web_server.messages_to_send) = <<>>
                          THEN "wait" ELSE "cleared"]
    /\ UNCHANGED << calendar, mapper_vars >>

\* The main thread updating the display while the checker of the server
\* thread empties the list.
NextQueue ==
    \/ StartWebServer
    \/ WebSocketConnect
    \/ UpdateDisplay
    \/ UpdateStamp
    \/ \E display_raises \in BOOLEAN : EpdDisplay(display_raises)
    \/ Tick
    \/ CheckerCopy
    \/ CheckerClear
    \/ CheckerBroadcast

SpecQueue == Init /\ [][NextQueue]_vars

\* Reference passes on rasters wide and high enough for a pixel to have all
\* twelve neighbours of the larger kernel inside the raster.
KernelW == 5
KernelH == 3

KernelImages ==
    {PatternImage(KernelH, KernelW, c0, cx, cy) :
        c0 \in 0..(Len(InputColors) - 1),
        cx \in 0..(Len(InputColors) - 1),
        cy \in 0..(Len(InputColors) - 1)}

KernelMethods == {"floyd_steinberg_7color", "jarvis_judice_ninke_7color"}

NextKernel ==
    \/ \E ctor_fails \in BOOLEAN : Construct(ctor_fails)
    \/ \E img \in KernelImages, m \in KernelMethods, fast_fails \in BOOLEAN :
          AdvancedStart(img, m, fast_fails)
    \/ \E elapsed \in BOOLEAN : DitherRow(elapsed)
    \/ DitherPixel
    \/ DitherReturn
    \/ Release

SpecKernel == Init /\ [][NextKernel]_vars

\* The direct scan alone: on real colours and on given distance vectors.
NextScan ==
    \/ \E ctor_fails \in BOOLEAN : Construct(ctor_fails)
    \/ \E rgb \in ProbeColors, u \in BOOLEAN : FindClosestDirect(rgb, u)
    \/ \E d \in [1..Len(eink_color_list) -> 0..MaxDistance] : ScanDistances(d)
    \/ Release

SpecScan == Init /\ [][NextScan]_vars

\* SpecBlue: blue-noise calls on small rasters, interleaved with other users
\* of the generator and with other calls of the mapper.
MaxBlueSide == 2

BlueImages == {img \in Images : img.h <= MaxBlueSide /\ img.w <= MaxBlueSide}

InitBlue == Init /\ ~FAST_DITHER_AVAILABLE /\ ~weak_promotion

NextBlue ==
    \/ \E ctor_fails \in BOOLEAN : Construct(ctor_fails)
    \/ \E img \in BlueImages : BlueStart(img)
    \/ BluePixel
    \/ BlueReturn
    \/ \E img \in BlueImages : QuantizeImage(img, "perceptual")
    \/ RngSeed
    \/ RngDraw
    \/ Remember
    \/ Release

SpecBlue == InitBlue /\ [][NextBlue]_vars

\* SpecScenario: the quantisers and the lookups on rasters of one colour,
\* white or magenta.
ScenarioColors == {<<255, 255, 255>>, <<255, 0, 255>>}

UniformImage(h, w, c) == [h |-> h, w |-> w, px |-> [p \in Pixels(h, w) |-> c]]

ScenarioImages ==
    {UniformImage(h, w, c) : h \in 1..MaxH, w \in 1..MaxW, c \in ScenarioColors}

NextScenario ==
    \/ \E ctor_fails \in BOOLEAN : Construct(ctor_fails)
    \/ \E img \in ScenarioImages, m \in QuantizeMethods : QuantizeImage(img, m)
    \/ \E img \in ScenarioImages, m \in AdvancedMethods, fast_fails \in BOOLEAN :
          AdvancedStart(img, m, fast_fails)
    \/ \E elapsed \in BOOLEAN : DitherRow(elapsed)
    \/ DitherPixel
    \/ DitherReturn
    \/ \E rgb \in ScenarioColors, u \in BOOLEAN : FindClosest(rgb, u)
    \/ \E rgb \in ScenarioColors, u \in BOOLEAN : FindClosestDirect(rgb, u)
    \/ Release

SpecScenario == Init /\ [][NextScenario]_vars

(***************************************************************************)
(* Properties.                                                             *)
(***************************************************************************)
Returned == pc = "done" /\ raised = "none" /\ result # NoImage

OnlyPalette(px) == \A p \in DOMAIN px : px[p] \in PaletteRGB

\* The advanced call takes the reference path.
ReferencePath == op = "quantize_image_advanced_dithering" /\ fast_ditherer = "None"

\* C1: every pixel of the image quantize_image returns, for 'perceptual' and
\* for any other method, is the exact RGB value of an EINK_COLORS entry.
C1_QuantizeOutputInPalette ==
    (Returned /\ op = "quantize_image") => OnlyPalette(result.px)

\* C1 witness: a 'simple' call has returned an image of more than one
\* colour.
C1_Witness ==
    /\ Returned
    /\ op = "quantize_image"
    /\ method = "simple"
    /\ \E p, q \in DOMAIN result.px : result.px[p] # result.px[q]

\* C2: on the reference path of quantize_image_advanced_dithering and in
\* quantize_image_blue_noise, every output cell holds a palette value at
\* every step, a cell not yet written is still zero, and when the call has
\* returned every cell of the pass has been written.
C2_ReferenceWritesPalette ==
    /\ (pc \in {"row", "px", "blue"} \/ (pc = "done" /\ writes # <<>>)) =>
          /\ OnlyPalette(output_array)
          /\ \A p \in DOMAIN output_array :
                writes[p] = 0 => output_array[p] = <<0, 0, 0>>
    /\ (Returned /\ (ReferencePath \/ op = "quantize_image_blue_noise")) =>
          /\ OnlyPalette(result.px)
          /\ \A p \in DOMAIN writes : writes[p] >= 1

\* C2 witness: a reference pass with the Jarvis-Judice-Ninke kernel has
\* returned an image of more than one colour.
C2_Witness ==
    /\ Returned
    /\ ReferencePath
    /\ method = "jarvis_judice_ninke_7color"
    /\ \A p \in DOMAIN writes : writes[p] = 1
    /\ \E p, q \in DOMAIN result.px : result.px[p] # result.px[q]

\* C3: the raster any of the three quantisers returns has the width and the
\* height of its input.
C3_SameDimensions ==
    Returned =>
        /\ result.h = image.h
        /\ result.w = image.w
        /\ DOMAIN result.px = Pixels(image.h, image.w)

\* C3 witness: an image that is not square has been returned by a reference
\* pass.
C3_Witness ==
    /\ Returned
    /\ ReferencePath
    /\ method = "floyd_steinberg_7color"
    /\ image.h # image.w
    /\ image.w > 1

\* C4: a failure of the accelerated backend, at construction or while
\* dithering, never reaches the caller as an exception.
C4_BackendFailureContained == backend_failed => raised = "none"

\* C5: with the accelerated backend in place, the image an advanced call
\* returns is the image the reference branch produces for the same input
\* and method selector.
ReferenceBranch(img, m) ==
    IF m = "simple" THEN quantize_image(img, "simple")
    ELSE ReferenceDither(img, error_kernel(m))

C5_AcceleratedEqualsReference ==
    (Returned /\ op = "quantize_image_advanced_dithering" /\ fast_ditherer = "obj") =>
        result = ReferenceBranch(image, method)

\* C6: for a triple whose channels are all multiples of 4, the cached lookup
\* returns the (name, rgb, index) of the direct scan.
Aligned(rgb) == \A c \in 1..3 : rgb[c] % 4 = 0

C6_CachedEqualsDirectOnGrid ==
    (pc = "done" /\ lookup.fn = "find_closest_eink_color" /\ Aligned(lookup.rgb)) =>
        lookup.entry = find_closest_eink_color_direct(lookup.rgb, lookup.use_ciede2000)

\* C6 witness: the cached lookup has answered for an aligned triple that is
\* no palette colour.
C6_Witness ==
    /\ pc = "done"
    /\ lookup.fn = "find_closest_eink_color"
    /\ lookup.rgb = <<20, 108, 252>>
    /\ lookup.entry.name \in {EINK_COLORS[i].name : i \in 1..Len(EINK_COLORS)}

\* C7: for every 8-bit triple, aligned or not, the cached lookup returns
\* the palette entry of the direct scan.
C7_CachedEqualsDirect ==
    (pc = "done" /\ lookup.fn = "find_closest_eink_color") =>
        lookup.entry = find_closest_eink_color_direct(lookup.rgb, lookup.use_ciede2000)

\* C8: rows are taken in increasing y, even rows from x = 0 up to
\* x = width - 1 and odd rows from x = width - 1 down to 0; the error of the
\* pixel at (y, x) goes only to cells (y + dy, x + dx) on even rows and
\* (y + dy, x - dx) on odd rows, for the entries (dx, dy) of the kernel.
MirroredTargets(row, col, kernel) ==
    { << row + kernel[k][2],
         IF row % 2 = 0 THEN col + kernel[k][1] ELSE col - kernel[k][1] >> :
      k \in 1..Len(kernel) }

C8_Serpentine ==
    [][ /\ (pc = "row" /\ pc' = "px") =>
              /\ y' = y
              /\ x' = IF y % 2 = 0 THEN 0 ELSE image.w - 1
        /\ (pc = "px" /\ pc' = "px") =>
              /\ y' = y
              /\ x' = IF y % 2 = 0 THEN x + 1 ELSE x - 1
              /\ 0 <= x' /\ x' < image.w
        /\ (pc = "px" /\ pc' = "row") =>
              /\ y' = y + 1
              /\ x = IF y % 2 = 0 THEN image.w - 1 ELSE 0
        /\ pc = "px" =>
              /\ writes' = [writes EXCEPT ![<<y, x>>] = 1]
              /\ \A q \in DOMAIN img_array :
                    img_array'[q] # img_array[q] =>
                        q \in MirroredTargets(y, x, error_kernel(method))
      ]_vars

\* C8 witness: on an odd row of a raster two wide, the pass has reached
\* x = 0 after the pixel at x = 1, whose error changed the cell at x = 0.
C8_Witness ==
    /\ pc = "px"
    /\ y = 1
    /\ x = 0
    /\ image.w = 2
    /\ writes[<<1, 1>>] = 1
    /\ writes[<<1, 0>>] = 0
    /\ img_array[<<1, 0>>] # ToFixed(image.px[<<1, 0>>])
    /\ image.px[<<0, 0>>] = image.px[<<0, 1>>]
    /\ image.px[<<0, 0>>] = image.px[<<1, 0>>]

\* C9: at every step of a reference pass every channel of every cell of
\* the working buffer is within [0, 255].
C9_BufferInRange ==
    \A p \in DOMAIN img_array : \A c \in 1..3 :
        0 <= img_array[p][c] /\ img_array[p][c] <= 255 * FixedOne

\* C9 witness: a black pixel right of a grey pixel that was set to WHITE
\* has received that pixel's negative error and is read as black.
C9_Witness ==
    /\ pc = "px"
    /\ y = 0
    /\ x = 1
    /\ image.px[<<0, 0>>] = <<128, 128, 128>>
    /\ image.px[<<0, 1>>] = <<0, 0, 0>>
    /\ output_array[<<0, 0>>] = <<255, 255, 255>>
    /\ writes[<<0, 0>>] = 1
    /\ img_array[<<0, 1>>] = <<0, 0, 0>>

\* C10: a blue-noise call on a raster returns what an earlier blue-noise
\* call on the same raster returned, whatever was called and whoever used
\* the generator in between.
C10_BlueNoiseReproducible ==
    (Returned /\ op = "quantize_image_blue_noise" /\ remembered.image = image) =>
        result = remembered.output

\* C10 witness: a second call on a remembered raster of four pixels has
\* returned after another consumer used the generator, and the thresholds
\* made it choose second-closest colours.
C10_Witness ==
    /\ Returned
    /\ op = "quantize_image_blue_noise"
    /\ remembered.image = image
    /\ remembered.disturbed
    /\ image.h = 2 /\ image.w = 2
    /\ \E p \in DOMAIN result.px :
          result.px[p] # find_closest_eink_color_direct(image.px[p], FALSE).rgb

\* C11: on the reference path an advanced call never raises, whatever the
\* height of the raster, and returns after one step per pixel.
C11_ReferencePassCompletes ==
    /\ ReferencePath => raised = "none"
    /\ (Returned /\ ReferencePath /\ writes # <<>>) =>
          \A p \in Pixels(image.h, image.w) : writes[p] = 1

\* C12: Floyd-Steinberg dithering of the raster of width 2 and height 1
\* with both pixels (128,128,128) ends with one BLACK and one WHITE pixel.
ScenarioB ==
    [h |-> 1, w |-> 2,
     px |-> (<<0, 0>> :> <<128, 128, 128>>) @@ (<<0, 1>> :> <<128, 128, 128>>)]

OneBlackOneWhite(px) ==
    {px[p] : p \in DOMAIN px} = {<<0, 0, 0>>, <<255, 255, 255>>}

C12_ScenarioB ==
    (pc = "done" /\ ReferencePath /\ method = "floyd_steinberg_7color"
        /\ image = ScenarioB) =>
        /\ raised = "none"
        /\ result.h = 1 /\ result.w = 2
        /\ OneBlackOneWhite(result.px)

\* C13: a raster that is (255,255,255) everywhere comes out WHITE
\* everywhere, from quantize_image and from error diffusion; during a
\* reference pass the error of every pixel is zero, so the working buffer
\* never changes.
IsUniform(img, c) == img # NoImage /\ \A p \in DOMAIN img.px : img.px[p] = c

C13_ScenarioA ==
    IsUniform(image, <<255, 255, 255>>) =>
        /\ Returned => \A p \in DOMAIN result.px : result.px[p] = <<255, 255, 255>>
        /\ pc \in {"row", "px"} =>
              /\ img_array = FloatArray(image)
              /\ \A p \in DOMAIN output_array :
                    writes[p] > 0 => output_array[p] = <<255, 255, 255>>

\* C13 witness: a reference pass with the Jarvis-Judice-Ninke kernel has
\* returned for a white raster of four rows and two columns.
C13_Witness ==
    /\ Returned
    /\ ReferencePath
    /\ method = "jarvis_judice_ninke_7color"
    /\ IsUniform(image, <<255, 255, 255>>)
    /\ image.h = 4 /\ image.w = 2

\* C14: for (255,0,255) the cached lookup, which reads bucket (252,0,252),
\* and the direct scan return the same palette entry, and a raster of that
\* colour only is quantized to that entry at every pixel, by the perceptual
\* quantize_image and by error diffusion.
Magenta == <<255, 0, 255>>

C14_ScenarioC ==
    /\ (lookup.fn # "none" /\ lookup.rgb = Magenta) =>
          lookup.entry = find_closest_eink_color_direct(Magenta, TRUE)
    /\ (Returned /\ IsUniform(image, Magenta)
          /\ (op = "quantize_image" => method = "perceptual")
          /\ (op = "quantize_image_advanced_dithering" => method # "simple")) =>
          \A p \in DOMAIN result.px :
              result.px[p] = find_closest_eink_color_direct(Magenta, TRUE).rgb

\* C14 witness: the cached lookup has answered BLUE for (255,0,255).
C14_Witness ==
    /\ pc = "done"
    /\ lookup.fn = "find_closest_eink_color"
    /\ lookup.rgb = Magenta
    /\ CacheKey(lookup.rgb) = <<252, 0, 252>>
    /\ lookup.entry.name = "BLUE"

\* C16: palette names and indices are unique, and every (name, rgb, index)
\* a lookup returns or the table holds agrees with the palette tables:
\* rgb = EINK_COLORS[name], index = COLOR_INDICES[name], index in 0..6.
ConsistentEntry(e) ==
    /\ \E i \in 1..Len(EINK_COLORS) :
          EINK_COLORS[i].name = e.name /\ EINK_COLORS[i].rgb = e.rgb
    /\ e.index = COLOR_INDICES[e.name]
    /\ e.index \in 0..6

C16_EntriesConsistent ==
    /\ \A i, j \in 1..Len(EINK_COLORS) :
          EINK_COLORS[i].name = EINK_COLORS[j].name => i = j
    /\ \A n1, n2 \in DOMAIN COLOR_INDICES :
          COLOR_INDICES[n1] = COLOR_INDICES[n2] => n1 = n2
    /\ lookup.fn # "none" =>
          /\ ConsistentEntry(lookup.entry)
          /\ ConsistentEntry(color_cache[CacheKey(lookup.rgb)])

\* C16 witness: the direct scan has returned YELLOW with index 5.
C16_Witness ==
    /\ pc = "done"
    /\ lookup.fn = "_find_closest_eink_color_direct"
    /\ lookup.entry = [name |-> "YELLOW", rgb |-> <<255, 255, 0>>, index |-> 5]

\* C20: during a reference pass, error is added only to pixels not yet
\* visited: a pixel that has been written keeps its buffer value and its
\* output for the rest of the pass, the pixel being visited keeps its buffer
\* value, no output is written twice, and when the pass returns every output
\* has been written exactly once.
Visited(p) == writes[p] > 0

C20_WrittenPixelsFrozen ==
    [][ /\ (pc \in {"row", "px"} /\ pc' \in {"row", "px"}) =>
            \A p \in Pixels(image.h, image.w) :
                /\ writes'[p] <= 1
                /\ Visited(p) => /\ img_array'[p] = img_array[p]
                                 /\ output_array'[p] = output_array[p]
                                 /\ writes'[p] = writes[p]
                /\ (pc = "px" /\ p = <<y, x>>) => /\ img_array'[p] = img_array[p]
                                                  /\ writes'[p] = 1
        /\ (pc = "row" /\ pc' = "done" /\ raised' = "none") =>
            \A p \in Pixels(image.h, image.w) : writes[p] = 1
      ]_vars

\* A pass on its second (right-to-left) row, with pixels written and with
\* error pushed into a pixel not yet visited.
C20_Witness ==
    /\ pc = "px" /\ y = 1 /\ image.w >= 2
    /\ \E p \in Pixels(image.h, image.w) : Visited(p)
    /\ \E p \in Pixels(image.h, image.w) :
          ~Visited(p) /\ img_array[p] # FloatArray(image)[p]

\* C19: the direct scan returns the first entry, in declaration order, among
\* those at the minimal distance; the result is a function of the distances
\* (and so of the input colour), the same on every call.
IsMinimal(distances, i) == \A j \in DOMAIN distances : distances[i] <= distances[j]

FirstMinimal(distances) ==
    CHOOSE i \in DOMAIN distances :
        /\ IsMinimal(distances, i)
        /\ \A j \in DOMAIN distances : IsMinimal(distances, j) => i <= j

C19_FirstDeclaredWins ==
    /\ scan # NoScan => scan.best = FirstMinimal(scan.distances)
    /\ lookup.fn = "_find_closest_eink_color_direct" =>
          lookup.entry =
              PaletteEntry(FirstMinimal(
                  PaletteDistances(rgb_to_lab(lookup.rgb), lookup.use_ciede2000)))

\* A scan over distances where two entries after the first tie for the
\* minimum and the earlier of the two was returned.
C19_Witness ==
    /\ scan # NoScan
    /\ scan.best > 1
    /\ \E j \in DOMAIN scan.distances :
          j > scan.best /\ scan.distances[j] = scan.distances[scan.best]

\* C17: once the mapper is constructed, no operation adds, removes or changes
\* an entry of the lookup cache, of the palette list or of its LAB values:
\* lookups, quantization and dithering passes only read them.
C17_TablesReadOnly ==
    [][ mapper = "ready" =>
            /\ mapper' = "ready"
            /\ palette' = palette
            /\ eink_color_list' = eink_color_list
            /\ cache_writes' = cache_writes
      ]_vars

\* A dithering pass that has looked colours up and filled its own local
\* cache, with the mapper's tables as construction left them.
C17_Witness ==
    /\ mapper = "ready"
    /\ cache_writes = <<>>
    /\ eink_color_list = build_eink_color_list(EINK_COLORS)
    /\ pc \in {"row", "px"}
    /\ local_cache # <<>>

\* C15: a malformed palette (no entries, or two entries sharing a name or an
\* index) makes construction fail: no mapper is ever ready over such a
\* palette.
Malformed(p) ==
    \/ Len(p.colors) = 0
    \/ \E i, j \in 1..Len(p.colors) :
          /\ i # j
          /\ \/ p.colors[i].name = p.colors[j].name
             \/ p.indices[p.colors[i].name] = p.indices[p.colors[j].name]

C18_RefreshesSpacedApart ==
    calendar.display_calls[1] # NoTime =>
        calendar.display_calls[2] - calendar.display_calls[1] >= min_refresh_interval

\* C21: a blue-noise call draws one threshold per pixel in row-major order:
\* after k draws exactly the first k pixels are written, once each; a pixel
\* whose threshold is below 0.7 holds a palette colour at the least distance
\* from its input, any other pixel the second-nearest, so every written
\* pixel is one of the two palette colours closest to its input.
RowMajor(p, w) == p[1] * w + p[2]

PaletteDeltaE(rgb, c) == delta_e_ciede2000(rgb_to_lab(rgb), rgb_to_lab(c))

\* number of palette colours strictly nearer to rgb than c is
NearerCount(rgb, c) ==
    Cardinality({i \in 1..Len(EINK_COLORS) :
                    PaletteDeltaE(rgb, EINK_COLORS[i].rgb) < PaletteDeltaE(rgb, c)})

IsNearest(rgb, c) == c \in PaletteRGB /\ NearerCount(rgb, c) = 0

IsSecondNearest(rgb, c) ==
    /\ c \in PaletteRGB
    /\ NearerCount(rgb, c) <= 1
    /\ \E d \in PaletteRGB \ {c} : PaletteDeltaE(rgb, d) <= PaletteDeltaE(rgb, c)

DrawOf(p, w) == RandomStream(42)[(RowMajor(p, w) % Len(RandomStream(42))) + 1]

C21_BlueNoiseTwoNearest ==
    (op = "quantize_image_blue_noise" /\ pc \in {"blue", "done"}) =>
        /\ rng.seed = 42
        /\ \A p \in Pixels(image.h, image.w) :
              /\ writes[p] = IF RowMajor(p, image.w) < rng.pos THEN 1 ELSE 0
              /\ writes[p] = 1 =>
                    IF DrawOf(p, image.w) < 700
                    THEN IsNearest(image.px[p], output_array[p])
                    ELSE IsSecondNearest(image.px[p], output_array[p])
        /\ pc = "done" => rng.pos = image.h * image.w

\* A returned blue-noise call on four pixels in which one pixel got the
\* nearest colour and another the second-nearest.
C21_Witness ==
    /\ Returned /\ op = "quantize_image_blue_noise"
    /\ image.h * image.w = 4
    /\ \E p, q \in Pixels(image.h, image.w) :
          /\ DrawOf(p, image.w) < 700 /\ IsNearest(image.px[p], result.px[p])
          /\ DrawOf(q, image.w) >= 700 /\ ~IsNearest(image.px[q], result.px[q])

\* C22: with the method selector 'simple' an advanced-dithering call diffuses
\* no error: every output pixel is the palette colour at the least RGB
\* distance from the input pixel at the same position, so equal input pixels
\* get equal outputs, with or without the accelerated backend.
EuclidSquare(rgb, c) ==
    (rgb[1] - c[1]) * (rgb[1] - c[1]) + (rgb[2] - c[2]) * (rgb[2] - c[2])
        + (rgb[3] - c[3]) * (rgb[3] - c[3])

IsNearestRGB(rgb, c) ==
    /\ c \in PaletteRGB
    /\ \A d \in PaletteRGB : EuclidSquare(rgb, c) <= EuclidSquare(rgb, d)

C22_SimpleIsPointwise ==
    (Returned /\ op = "quantize_image_advanced_dithering" /\ method = "simple") =>
        \A p \in Pixels(image.h, image.w) :
            /\ IsNearestRGB(image.px[p], result.px[p])
            /\ \A q \in Pixels(image.h, image.w) :
                  image.px[q] = image.px[p] => result.px[q] = result.px[p]

\* C23: the working buffer and the memo cache belong to one call of the
\* reference pass: the call starts from an empty memo cache and a fresh copy
\* of the input, it never changes the caller's raster, and what it returns
\* is what a pass over that raster alone gives, whatever calls came before.
C23_PassStateIsPrivate ==
    [][ /\ (pc = "idle" /\ pc' = "row") =>
              /\ local_cache' = <<>>
              /\ \A p \in Pixels(image'.h, image'.w) :
                    /\ img_array'[p] = ToFixed(image'.px[p])
                    /\ writes'[p] = 0
        /\ pc \in {"row", "px"} => image' = image
        /\ (pc = "row" /\ pc' = "done" /\ raised' = "none") =>
              result' = ReferenceDither(image, error_kernel(method))
      ]_vars

\* A returned reference pass over at least four pixels that memoised
\* lookups and pushed error into its buffer.
C23_Witness ==
    /\ Returned /\ ReferencePath /\ method # "simple"
    /\ local_cache # <<>>
    /\ img_array # FloatArray(image)
    /\ image.h * image.w >= 4

\* C24: the kernels are the specified tables, the weights of each sum to 1,
\* and one step of the pass changes the buffer only at the kernel's targets
\* inside the raster: without clamping, the error added there is the pixel's
\* residual times the weights of the targets inside the raster (all of the
\* residual when every target is inside), up to the rounding of each
\* product, and exactly so when every product is exact; error aimed outside
\* the raster is dropped.
SpecifiedFloydSteinberg ==
    { <<1, 0, 7, 16>>, <<-1, 1, 3, 16>>, <<0, 1, 5, 16>>, <<1, 1, 1, 16>> }

SpecifiedJarvisJudiceNinke ==
    { <<1, 0, 7, 48>>, <<2, 0, 5, 48>>,
      <<-2, 1, 3, 48>>, <<-1, 1, 5, 48>>, <<0, 1, 7, 48>>, <<1, 1, 5, 48>>, <<2, 1, 3, 48>>,
      <<-2, 2, 1, 48>>, <<-1, 2, 3, 48>>, <<0, 2, 5, 48>>, <<1, 2, 3, 48>>, <<2, 2, 1, 48>> }

KernelEntries(kernel) == {kernel[i] : i \in 1..Len(kernel)}

\* pixel a kernel entry aims at from (row, col), mirrored on odd rows
KernelTarget(e, row, col) ==
    << row + e[2], IF row % 2 = 1 THEN col - e[1] ELSE col + e[1] >>

\* sum of f over the entries of es; f maps an entry to an integer
RECURSIVE SumEntries(_, _)
SumEntries(es, f) ==
    IF es = {} THEN 0
    ELSE LET e == CHOOSE e \in es : TRUE
         IN  f[e] + SumEntries(es \ {e}, f)

Abs(v) == IF v < 0 THEN -v ELSE v

KernelWeightsSumToOne(kernel) ==
    \A e \in KernelEntries(kernel) :
        SumEntries(KernelEntries(kernel), [k \in KernelEntries(kernel) |-> k[3]]) = e[4]

C24_KernelsConserveError ==
    [][ /\ KernelEntries(error_kernel("floyd_steinberg_7color")) = SpecifiedFloydSteinberg
        /\ Len(FloydSteinbergKernel) = 4
        /\ KernelEntries(error_kernel("jarvis_judice_ninke_7color")) = SpecifiedJarvisJudiceNinke
        /\ Len(JarvisJudiceNinkeKernel) = 12
        /\ KernelWeightsSumToOne(FloydSteinbergKernel)
        /\ KernelWeightsSumToOne(JarvisJudiceNinkeKernel)
        /\ pc = "px" =>
              LET px     == Pixels(image.h, image.w)
                  es     == KernelEntries(error_kernel(method))
                  inside == {e \in es : KernelTarget(e, y, x) \in px}
                  den    == (CHOOSE e \in es : TRUE)[4]
              IN  /\ \A p \in px \ {KernelTarget(e, y, x) : e \in inside} :
                        img_array'[p] = img_array[p]
                  /\ \A c \in 1..3 :
                        LET residual == img_array[<<y, x>>][c]
                                          - output_array'[<<y, x>>][c] * FixedOne
                            added    == SumEntries(inside,
                                          [e \in inside |->
                                              img_array'[KernelTarget(e, y, x)][c]
                                                - img_array[KernelTarget(e, y, x)][c]])
                            weight   == SumEntries(inside, [e \in inside |-> e[3]])
                            clamped  == \E e \in inside :
                                          img_array'[KernelTarget(e, y, x)][c]
                                              \in {0, 255 * FixedOne}
                        IN  ~clamped =>
                              /\ 2 * Abs(added * den - residual * weight)
                                    <= den * Cardinality(inside)
                              /\ (\A e \in inside : (residual * e[3]) % den = 0) =>
                                    added * den = residual * weight
                              /\ (inside = es /\ \A e \in es : (residual * e[3]) % den = 0) =>
                                    added = residual
      ]_vars

\* A Jarvis-Judice-Ninke pass just after the pixel (0, 2), whose twelve
\* targets are all inside the raster: its error has reached the far corner
\* (2, 0) of the kernel without clamping.
C24_Witness ==
    /\ pc = "px" /\ method = "jarvis_judice_ninke_7color"
    /\ image.w >= 5 /\ image.h >= 3
    /\ y = 0 /\ x = 3
    /\ img_array[<<2, 0>>] # ToFixed(image.px[<<2, 0>>])
    /\ \A c \in 1..3 : img_array[<<2, 0>>][c] \notin {0, 255 * FixedOne}

\* C25: in a reference pass the colour looked up for a pixel, which is also
\* its key in the memo cache, is the pixel's accumulated value rounded to the
\* nearest integer per channel.
RoundNearest(v) == (Clip(v) + FixedOne \div 2) \div FixedOne

RoundedRGB(v) == << RoundNearest(v[1]), RoundNearest(v[2]), RoundNearest(v[3]) >>

C25_LookupKeyIsRounded ==
    (ReferencePath /\ pc \in {"row", "px"}) =>
        \A p \in Pixels(image.h, image.w) :
            Visited(p) =>
                /\ RoundedRGB(img_array[p]) \in DOMAIN local_cache
                /\ output_array[p] = local_cache[RoundedRGB(img_array[p])]

\* C28: the table has one entry per triple of the 64 multiples of 4 in
\* 0..252 and every 8-bit channel value rounds to one of them, so a cached
\* lookup always finds its bucket in the table, returns that entry, never
\* takes the direct fallback, and does not depend on use_ciede2000.
C28_CacheIsTotal ==
    /\ CacheLevels = {4 * k : k \in 0..63}
    /\ \A ch \in 0..255 : \A c \in 1..3 : CacheKey(<<ch, ch, ch>>)[c] \in CacheLevels
    /\ lookup.fn = "find_closest_eink_color" =>
          /\ CacheKey(lookup.rgb) \in DOMAIN color_cache
          /\ lookup.entry = color_cache[CacheKey(lookup.rgb)]
          /\ lookup.entry = find_closest_eink_color(lookup.rgb, ~lookup.use_ciede2000)

\* A cached lookup, with CIE76 asked for, of a colour off the grid whose
\* direct CIE76 match is another colour than the entry returned.
C28_Witness ==
    /\ lookup.fn = "find_closest_eink_color"
    /\ ~Aligned(lookup.rgb)
    /\ ~lookup.use_ciede2000
    /\ find_closest_eink_color_direct(lookup.rgb, FALSE) # lookup.entry

\* C26: in normal mode with a hardware display every midnight_update ends
\* with the display refreshed: epd.display has been called in it and
\* last_full_refresh is the time of that update, whatever updates came
\* shortly before (last_full_refresh is only asked to move when epd.display
\* returned normally).
C26_MidnightAlwaysRefreshes ==
    (calendar.caller = "midnight_update" /\ calendar.at = "idle"
        /\ ~calendar.demo_mode) =>
            /\ calendar.displayed
            /\ (calendar.returned = "True" =>
                    calendar.last_full_refresh = calendar.current_time)

\* The fields of the calendar object that set_demo_mode could change, and
\* where update_display stands.
CalendarFields(c) ==
    <<c.demo_mode, c.current_pokemon_index, c.last_refresh_time,
      c.last_full_refresh, c.current_time, c.display_calls, c.at>>

\* C27: set_demo_mode(enabled) returns the mode that was active before the
\* call and leaves demo_mode equal to enabled; with enabled equal to the
\* previous mode nothing else changes and update_display is not called; on
\* leaving demo mode current_pokemon_index becomes 0, on entering it becomes
\* an index within 0..len(pokemon_data)-1, and in both cases update_display
\* is called exactly once.
C27_SetDemoModeEffect ==
    [][(/\ calendar.at = "idle"
        /\ calendar'.caller = "set_demo_mode"
        /\ calendar'.clock = calendar.clock) =>
            /\ calendar'.old_mode = calendar.demo_mode
            /\ calendar'.demo_mode = calendar'.enabled
            /\ (calendar'.enabled = calendar.demo_mode) =>
                    /\ calendar'.attempts = 0
                    /\ CalendarFields(calendar') = CalendarFields(calendar)
            /\ (calendar.demo_mode /\ ~calendar'.enabled) =>
                    /\ calendar'.current_pokemon_index = 0
                    /\ calendar'.attempts = 1
            /\ (~calendar.demo_mode /\ calendar'.enabled) =>
                    /\ calendar'.current_pokemon_index \in 0..(NumPokemon - 1)
                    /\ calendar'.attempts = 1
      ]_vars

\* set_demo_mode(False) has just left a demo mode and called update_display.
C27_Witness ==
    /\ calendar.caller = "set_demo_mode"
    /\ calendar.old_mode /\ ~calendar.enabled
    /\ ~calendar.demo_mode
    /\ calendar.current_pokemon_index = 0
    /\ calendar.attempts = 1

\* C29: with update_display called by the main loop and by request
\* handlers of the web server thread, two calls of epd.display are never
\* less than min_refresh_interval apart and no call of epd.display starts
\* while another is running.
C29_RefreshSafeAcrossThreads ==
    /\ calendar.display_calls[1] # NoTime =>
          calendar.display_calls[2] - calendar.display_calls[1]
              >= min_refresh_interval
    /\ ~web_server.overlapped

\* The messages appended so far, in append order.
Appended(w) == [i \in 1..w.appended |-> i]

\* The messages the checker still has to broadcast: after its copy and before
\* its clear the copied messages are in both lists.
Outstanding(w) ==
    IF w.checker = "copied"
    THEN w.pending_messages
    ELSE w.messages_to_send \o w.pending_messages

\* C30: every message update_display appends from the main thread is
\* broadcast exactly once and in append order: at any moment the messages
\* broadcast so far followed by those still held by the checker or the list
\* are the appended messages in their order, none missing, none twice.
C30_MessagesBroadcastOnceInOrder ==
    web_server.broadcast \o Outstanding(web_server) = Appended(web_server)

=============================================================================
